---- MODULE Spec2Model ----
(***************************************************************************)
(* Model of whipper/command/basecommand.py: BaseCommand.__init__, the      *)
(* recursive construction of a chain of command nodes.  Each node declares *)
(* flags, takes defaults from the configuration store under the dotted     *)
(* command path, optionally adds the -d/--device option, parses its argv   *)
(* into the shared options namespace, validates the device, runs the       *)
(* post-parse hook and dispatches to one subcommand.                       *)
(*                                                                         *)
(* Strings that the code takes apart (prog_name) are sequences of atoms:   *)
(* a command name or the separator " ".  Python values are tagged records. *)
(*                                                                         *)
(* BaseCommand is abstract: the model runs it on a tree of subclasses,     *)
(* Whipper -> CD -> {Rip, Info}, in which a child declares a flag of its   *)
(* parent again (-o), two nested nodes have device_option, and one hook    *)
(* may raise.  The collaborators answer nondeterministically: the store's  *)
(* text for an option is drawn when the node looks it up (each section is  *)
(* read by one node), the drive list at the first enumeration.             *)
(***************************************************************************)
EXTENDS Integers, Sequences, FiniteSets, TLC

VARIABLES stack, heap, cur, outcome, log, devices, doing, table, helptext,
          storeHasDevice

vars == <<stack, heap, cur, outcome, log, devices, doing, table, helptext,
          storeHasDevice>>

(* ---------------- bounds ---------------- *)

(* the longest argv given to the root *)
MaxArgv == 3

(* the most subcommands of a table whose epilog is computed *)
MaxChildren == 3

(* ---------------- Python values ---------------- *)

None == [t |-> "none"]
Str(s) == [t |-> "str", s |-> s]
Bool(b) == [t |-> "bool", b |-> b]
List(l) == [t |-> "list", l |-> l]

(* Python truthiness of a value: `not x` is the negation of this. *)
Truthy(v) ==
  CASE v.t = "none" -> FALSE
    [] v.t = "str" -> v.s # ""
    [] v.t = "bool" -> v.b
    [] v.t = "list" -> v.l # <<>>

(* ---------------- the command classes (subclasses of BaseCommand) ------ *)

Classes == {"Whipper", "CD", "Rip", "Info"}

RootClass == "Whipper"
RootName == "whipper"

(* hasattr(self, 'subcommands') *)
HasSubcommands(cls) == cls \in {"Whipper", "CD"}

(* self.subcommands: child name -> class *)
Subcommands(cls) ==
  CASE cls = "Whipper" -> [n \in {"cd"} |-> "CD"]
    [] cls = "CD" -> [n \in {"rip", "info"} |-> IF n = "rip" THEN "Rip" ELSE "Info"]
    [] OTHER -> [n \in {} |-> "Info"]

(* device_option class attribute *)
DeviceOption(cls) == cls \in {"CD", "Rip"}

(* no_add_help class attribute *)
NoAddHelp(cls) == cls = "Whipper"

(* add_arguments(): the flags a class declares on self.parser, in order. *)
(* default is the built-in default argparse gives the action.            *)
Flags(cls) ==
  CASE cls = "Whipper" ->
         << [opt |-> "-o", dest |-> "output", action |-> "store", default |-> None],
            [opt |-> "-R", dest |-> "record", action |-> "store_true", default |-> Bool(FALSE)] >>
    [] cls = "CD" ->
         << [opt |-> "-o", dest |-> "output", action |-> "store", default |-> None] >>
    [] cls = "Rip" ->
         << [opt |-> "-k", dest |-> "keep_going", action |-> "store_false", default |-> Bool(TRUE)] >>
    [] OTHER -> << >>

(* handle_arguments(): the base hook passes; an overriding hook may raise. *)
HookMayFail(cls) == cls = "CD"

FlagDests(cls) == {Flags(cls)[i].dest : i \in 1..Len(Flags(cls))}

FlagOf(cls, dest) == CHOOSE f \in {Flags(cls)[i] : i \in 1..Len(Flags(cls))} : f.dest = dest

(* ---------------- argv tokens ---------------- *)

(* The tokens of an argv.  A name is a subcommand where a table holds it *)
(* and an incorrect one elsewhere ("rip" for the root, "cd" for cd); any *)
(* argument can be the value of -o or -d ("rip" is a device path that    *)
(* does not exist, "/dev/cdrom" one that does).                          *)
Tokens == {"-R", "-o", "-d", "-h", "cd", "rip", "/dev/cdrom"}

(* argparse: a token whose first character is a prefix char ('-') is an *)
(* optional ('O'), everything else an argument ('A').                   *)
OptionLike == {"-R", "-o", "-d", "-h"}

Argvs == UNION {[1..n -> Tokens] : n \in 0..MaxArgv}

(* ---------------- collaborators ---------------- *)

(* the text the configuration file holds for an option, or NoText *)
NoText == "<absent>"
ConfigTexts == {"yes", "no"}

(* config.Config().get(section, option): the raw text, None when absent *)
ConfigGet(text) == IF text = NoText THEN None ELSE Str(text)

(* config.Config().getboolean(section, option): the text read by an     *)
(* explicit grammar of true and false words; any other text is an error *)
(* the lookup raises.                                                   *)
ValueError == [t |-> "ValueError"]

ConfigGetBoolean(text) ==
  IF text = NoText THEN None
  ELSE IF text \in {"1", "yes", "true", "on"} THEN Bool(TRUE)
  ELSE IF text \in {"0", "no", "false", "off"} THEN Bool(FALSE)
  ELSE ValueError

(* drive.getAllDevicePaths(): the drives the machine may have.  The list  *)
(* is the same for every call of one run; it is drawn at the first call. *)
NotEnumerated == <<"?">>
DriveLists == { <<>>, <<"/dev/cdrom">>, <<"/dev/sr1", "/dev/cdrom">> }

(* os.path.realpath: /dev/cdrom is a symlink to /dev/sr0 *)
RealPath(p) == IF p = "/dev/cdrom" THEN "/dev/sr0" ELSE p

(* os.path.exists *)
PathExists(p) == p \in {"/dev/sr0", "/dev/cdrom", "/dev/sr1"}

(* ---------------- namespaces ---------------- *)

EmptyNamespace == [n \in {} |-> None]

HasAttr(ns, n) == n \in DOMAIN ns

SetAttr(ns, n, v) == [m \in DOMAIN ns \cup {n} |-> IF m = n THEN v ELSE ns[m]]

(* ---------------- prog_name and the config section ---------------- *)

(* a replace that stops after the first space *)
ConfigSectionFirstOnly(prog_name) ==
  LET first == CHOOSE i \in 1..Len(prog_name) + 1 :
                 /\ i <= Len(prog_name) => prog_name[i] = " "
                 /\ \A j \in 1..i - 1 : prog_name[j] # " "
  IN [i \in 1..Len(prog_name) |-> IF i = first THEN "." ELSE prog_name[i]]

(* prog_name.replace(' ', '.') *)
ConfigSection(prog_name) ==
  [i \in 1..Len(prog_name) |-> IF prog_name[i] = " " THEN "." ELSE prog_name[i]]

(* ---------------- the parser of a node ---------------- *)

(* The actions the node's parser holds when parse_args runs, by option   *)
(* string: -h/--help unless no_add_help, the declared flags, -d/--device *)
(* when device_option.                                                   *)
HelpAction == [opt |-> "-h", dest |-> "help", action |-> "help", default |-> None]
(* a device option that defaults to the last drive *)
DeviceActionLastDrive(drives) ==
  [opt |-> "-d", dest |-> "device", action |-> "store", default |-> Str(drives[Len(drives)])]

DeviceAction(drives) ==
  [opt |-> "-d", dest |-> "device", action |-> "store", default |-> Str(drives[1])]

OptionActions(cls, drives) ==
  {Flags(cls)[i] : i \in 1..Len(Flags(cls))}
    \cup (IF NoAddHelp(cls) THEN {} ELSE {HelpAction})
    \cup (IF DeviceOption(cls) THEN {DeviceAction(drives)} ELSE {})

OptionStrings(cls, drives) == {a.opt : a \in OptionActions(cls, drives)}

ActionFor(cls, drives, opt) == CHOOSE a \in OptionActions(cls, drives) : a.opt = opt

(* a lookup that reads every flag as text and takes its truthiness *)
ConfigLookupUntyped(action, text) ==
  IF action = "store" THEN ConfigGet(text)
  ELSE IF ConfigGet(text) = None THEN None
  ELSE Bool(Truthy(ConfigGet(text)))

(* the config lookups of lines 65-74: defaults[dest] for every declared  *)
(* action the store answers for; store actions through get, store_true  *)
(* and store_false through getboolean.                                   *)
ConfigLookup(action, text) ==
  IF action = "store" THEN ConfigGet(text) ELSE ConfigGetBoolean(text)

(* a loop that finds -d/--device among the actions of the parser *)
LookedUpWithDevice(cls) ==
  FlagDests(cls) \cup (IF DeviceOption(cls) THEN {"device"} ELSE {})

(* line 65: the dests of the store and boolean actions self.parser holds *)
(* when the loop runs, the declared flags; the catch-all and -d/--device *)
(* are added after it (lines 77-94)                                      *)
LookedUp(cls) == FlagDests(cls)

(* the kind of the action of a dest *)
ActionKind(cls, d) == IF d = "device" THEN "store" ELSE FlagOf(cls, d).action

ConfigDefaults(cls, cfg) ==
  LET found == {d \in LookedUp(cls) : ConfigLookup(ActionKind(cls, d), cfg[d]) # None}
  IN [d \in found |-> ConfigLookup(ActionKind(cls, d), cfg[d])]

(* the dests whose default parse_args may write, and that default:       *)
(* set_defaults replaced the default of the flags found in the store;    *)
(* remainder defaults to None, device to drives[0]; help is suppressed.  *)
DefaultDests(cls) ==
  FlagDests(cls)
    \cup (IF HasSubcommands(cls) THEN {"remainder"} ELSE {})
    \cup (IF DeviceOption(cls) THEN {"device"} ELSE {})

(* defaults that ignore what the configuration store answered *)
ActionDefaultBuiltin(cls, defaults, drives, dest) ==
  IF dest = "remainder" THEN None
  ELSE IF dest = "device" THEN DeviceAction(drives).default
  ELSE FlagOf(cls, dest).default

ActionDefault(cls, defaults, drives, dest) ==
  IF dest \in DOMAIN defaults THEN defaults[dest]
  ELSE IF dest = "remainder" THEN None
  ELSE IF dest = "device" THEN DeviceAction(drives).default
  ELSE FlagOf(cls, dest).default

(* defaults written over whatever the namespace holds *)
ApplyDefaultsOverwrite(cls, defaults, drives, ns) ==
  [n \in DOMAIN ns \cup DefaultDests(cls) |->
     IF n \in DefaultDests(cls) THEN ActionDefault(cls, defaults, drives, n) ELSE ns[n]]

(* parse_args: "add any action defaults that aren't present" *)
ApplyDefaults(cls, defaults, drives, ns) ==
  [n \in DOMAIN ns \cup DefaultDests(cls) |->
     IF HasAttr(ns, n) THEN ns[n] ELSE ActionDefault(cls, defaults, drives, n)]

(* The parse loop of parse_known_args from token i on: an optional the   *)
(* parser knows runs its action (store takes the next token if that is   *)
(* an argument), an unknown optional goes to the extras, the first       *)
(* argument starts the REMAINDER positional of a node with subcommands   *)
(* (it takes every token that is left) and is an extra for a leaf; -h    *)
(* exits at once, extras are the error reported at the end.              *)
RECURSIVE ParseLoop(_, _, _, _, _, _)
ParseLoop(cls, drives, argv, i, ns, extras) ==
  IF i > Len(argv)
  THEN [ns |-> IF HasSubcommands(cls) THEN SetAttr(ns, "remainder", List(<<>>)) ELSE ns,
        status |-> IF extras THEN "error" ELSE "ok"]
  ELSE
    LET tok == argv[i] IN
    IF tok \in OptionLike
    THEN IF tok \notin OptionStrings(cls, drives)
         THEN ParseLoop(cls, drives, argv, i + 1, ns, TRUE)
         ELSE LET a == ActionFor(cls, drives, tok) IN
              CASE a.action = "help" -> [ns |-> ns, status |-> "help"]
                [] a.action = "store_true" ->
                     ParseLoop(cls, drives, argv, i + 1, SetAttr(ns, a.dest, Bool(TRUE)), extras)
                [] a.action = "store_false" ->
                     ParseLoop(cls, drives, argv, i + 1, SetAttr(ns, a.dest, Bool(FALSE)), extras)
                [] a.action = "store" ->
                     IF i + 1 <= Len(argv) /\ argv[i + 1] \notin OptionLike
                     THEN ParseLoop(cls, drives, argv, i + 2,
                                    SetAttr(ns, a.dest, Str(argv[i + 1])), extras)
                     ELSE [ns |-> ns, status |-> "error"]
    ELSE IF HasSubcommands(cls)
         THEN [ns |-> SetAttr(ns, "remainder", List(SubSeq(argv, i, Len(argv)))),
               status |-> IF extras THEN "error" ELSE "ok"]
         ELSE ParseLoop(cls, drives, argv, i + 1, ns, TRUE)

(* a parse into a namespace of its own *)
ParseArgsFreshNamespace(cls, defaults, drives, argv, ns) ==
  ParseLoop(cls, drives, argv, 1, ApplyDefaults(cls, defaults, drives, EmptyNamespace), FALSE)

(* a parse that lets the configured defaults overwrite what argv gave *)
ParseArgsConfigLast(cls, defaults, drives, argv, ns) ==
  LET r == ParseLoop(cls, drives, argv, 1, ApplyDefaults(cls, defaults, drives, ns), FALSE)
  IN [ns |-> [n \in DOMAIN r.ns |-> IF n \in DOMAIN defaults THEN defaults[n] ELSE r.ns[n]],
      status |-> r.status]

(* a parse that keeps every value the namespace was handed with *)
ParseArgsInheritedWins(cls, defaults, drives, argv, ns) ==
  LET r == ParseLoop(cls, drives, argv, 1, ApplyDefaults(cls, defaults, drives, ns), FALSE)
  IN [ns |-> [n \in DOMAIN r.ns |->
                IF HasAttr(ns, n) /\ n # "remainder" THEN ns[n] ELSE r.ns[n]],
      status |-> r.status]

(* self.parser.parse_args(argv, namespace=opts) *)
ParseArgs(cls, defaults, drives, argv, ns) ==
  ParseLoop(cls, drives, argv, 1, ApplyDefaults(cls, defaults, drives, ns), FALSE)

(* ---------------- the help epilog ---------------- *)

(* The names a subcommands table may hold, as Python compares them: by  *)
(* the code points of their characters.                                  *)
ChildNames == {"cd", "rip", "info", "image", "mblookup"}

CodePoints(name) ==
  CASE name = "cd" -> <<99, 100>>
    [] name = "rip" -> <<114, 105, 112>>
    [] name = "info" -> <<105, 110, 102, 111>>
    [] name = "image" -> <<105, 109, 97, 103, 101>>
    [] name = "mblookup" -> <<109, 98, 108, 111, 111, 107, 117, 112>>

(* str.__lt__: the first differing character decides, a proper prefix   *)
(* is smaller                                                            *)
RECURSIVE CodesLess(_, _)
CodesLess(a, b) ==
  IF b = <<>> THEN FALSE
  ELSE IF a = <<>> THEN TRUE
  ELSE IF a[1] # b[1] THEN a[1] < b[1]
  ELSE CodesLess(Tail(a), Tail(b))

StrLess(a, b) == CodesLess(CodePoints(a), CodePoints(b))

(* the summaries a subcommand class may have *)
Summaries == {"rip CD", "show info"}

(* self.subcommands as a dict: entries in the order they were inserted *)
Tables ==
  {t \in UNION {[1..n -> [name : ChildNames, summary : Summaries]] : n \in 0..MaxChildren} :
     \A i, j \in 1..Len(t) : i # j => t[i].name # t[j].name}

(* self.subcommands.keys() *)
Keys(t) == [i \in 1..Len(t) |-> t[i].name]

(* self.subcommands[com].summary *)
SummaryOf(t, com) == (CHOOSE e \in {t[i] : i \in 1..Len(t)} : e.name = com).summary

(* the place of a name in a sorted sequence: after the names not greater *)
RECURSIVE Insert(_, _)
Insert(sortedNames, name) ==
  IF sortedNames = <<>> THEN <<name>>
  ELSE IF StrLess(name, sortedNames[1]) THEN <<name>> \o sortedNames
  ELSE <<sortedNames[1]>> \o Insert(Tail(sortedNames), name)

(* keys left in the order of the dict *)
SortedAsInserted(names) == names

(* sorted(...) *)
RECURSIVE Sorted(_)
Sorted(names) ==
  IF names = <<>> THEN <<>>
  ELSE Insert(Sorted(SubSeq(names, 1, Len(names) - 1)), names[Len(names)])

(* the width com.ljust(8) pads to *)
JustWidth == 8

(* com.ljust(8): the name, then spaces up to the width *)
LJust(name) ==
  <<name>> \o [i \in 1..(IF Len(CodePoints(name)) < JustWidth
                         THEN JustWidth - Len(CodePoints(name)) ELSE 0) |-> " "]

(* "  %s %s\n" % (com.ljust(8), self.subcommands[com].summary) *)
EpilogLine(t, com) == <<"  ">> \o LJust(com) \o <<" ", SummaryOf(t, com), "\n">>

(* lines 143-147: the text as the sequence of its lines *)
Epilog(t) ==
  <<  <<"commands:", "\n">>  >> \o
    [i \in 1..Len(t) |-> EpilogLine(t, Sorted(Keys(t))[i])]

NotComputed == << <<"?">> >>

(* ---------------- state ---------------- *)

(* stack[k] is the k-th node of the chain, the root first; cur is the    *)
(* node whose __init__ is running.  heap[r] is the namespace object with *)
(* reference r.  entry and parsed are the contents of the node's         *)
(* namespace when its __init__ started and when its parse_args returned. *)
NoCode == -1

Running == [kind |-> "running", code |-> NoCode, node |-> 0, why |-> ""]

Frame(cls, argv, prog_name, opts, ns) ==
  [cls |-> cls, argv |-> argv, prog_name |-> prog_name, opts |-> opts,
   options |-> 0, pc |-> "configure", section |-> <<>>,
   cfg |-> [n \in {} |-> NoText], defaults |-> EmptyNamespace,
   drives |-> <<>>, cmd |-> 0, entry |-> ns, parsed |-> EmptyNamespace]

(* what the store may hold under the node's section: an entry for each  *)
(* declared flag and, in a store with device entries, one named device  *)
(* in the section of every class with device_option                     *)
ConfigKeys(cls) ==
  FlagDests(cls) \cup (IF DeviceOption(cls) /\ storeHasDevice THEN {"device"} ELSE {})

(* the text a device entry of the store holds *)
DeviceTexts == {"/dev/sr1"}

KeyTexts(key) == IF key = "device" THEN DeviceTexts ELSE ConfigTexts \cup {NoText}

ConfigContents(cls) ==
  {cfg \in [ConfigKeys(cls) -> ConfigTexts \cup DeviceTexts \cup {NoText}] :
     \A key \in ConfigKeys(cls) : cfg[key] \in KeyTexts(key)}

Init ==
  /\ \E argv \in Argvs :
       stack = << Frame(RootClass, argv, <<RootName>>, 1, EmptyNamespace) >>
  /\ heap = << EmptyNamespace >>
  /\ cur = 1
  /\ outcome = Running
  /\ log = << >>
  /\ devices = NotEnumerated
  /\ doing = 0
  /\ table = << >>
  /\ helptext = NotComputed
  /\ storeHasDevice = FALSE

Step(name) == log' = Append(log, [node |-> cur, step |-> name])

Raise(kind, code, why) ==
  outcome' = [kind |-> kind, code |-> code, node |-> cur, why |-> why]

(* lines 58-80: init_parser, add_arguments, the config defaults, the     *)
(* catch-all positional                                                  *)
Configure ==
  /\ outcome = Running
  /\ stack[cur].pc = "configure"
  /\ \E cfg \in ConfigContents(stack[cur].cls) :
       LET defaults == ConfigDefaults(stack[cur].cls, cfg) IN
       IF \E d \in DOMAIN defaults : defaults[d] = ValueError
       THEN /\ Raise("ValueError", NoCode, "getboolean")
            /\ stack' = [stack EXCEPT ![cur].section = ConfigSection(stack[cur].prog_name),
                                      ![cur].cfg = cfg]
       ELSE /\ UNCHANGED outcome
            /\ stack' = [stack EXCEPT ![cur].section = ConfigSection(stack[cur].prog_name),
                                      ![cur].cfg = cfg,
                                      ![cur].defaults = defaults,
                                      ![cur].pc = IF DeviceOption(stack[cur].cls)
                                                  THEN "device" ELSE "parse"]
  /\ Step("configure")
  /\ UNCHANGED <<heap, cur, devices, doing, table, helptext, storeHasDevice>>

(* a check that never finds the drive list empty *)
NoDrivesNever(drives) == FALSE

(* line 85: if not drives *)
NoDrives(drives) == ~Truthy(List(drives))

(* lines 82-94, a class with device_option: enumerate the drives, add   *)
(* -d/--device with the first drive as its default                      *)
AddDeviceOption ==
  /\ outcome = Running
  /\ stack[cur].pc = "device"
  /\ Step("device")
  /\ UNCHANGED <<heap, cur, doing, table, helptext, storeHasDevice>>
  /\ \E drives \in (IF devices = NotEnumerated THEN DriveLists ELSE {devices}) :
       /\ devices' = drives
       /\ IF NoDrives(drives)
          THEN /\ Raise("IOError", NoCode, "no_drives")
               /\ UNCHANGED stack
          ELSE /\ stack' = [stack EXCEPT ![cur].drives = drives, ![cur].pc = "parse"]
               /\ UNCHANGED outcome

(* a constructor that goes from the parse straight to the dispatch *)
AfterParseNoHook(cls) == IF DeviceOption(cls) THEN "validate" ELSE "dispatch"

(* lines 98-106: what follows parse_args, the device validation of a    *)
(* class with device_option, handle_arguments for the others            *)
AfterParse(cls) == IF DeviceOption(cls) THEN "validate" ELSE "hook"

(* line 96: self.options = self.parser.parse_args(argv, namespace=opts) *)
ParseArguments ==
  /\ outcome = Running
  /\ stack[cur].pc = "parse"
  /\ Step("parse")
  /\ UNCHANGED <<cur, devices, doing, table, helptext, storeHasDevice>>
  /\ LET f == stack[cur]
         r == ParseArgs(f.cls, f.defaults, f.drives, f.argv, heap[f.opts])
     IN /\ heap' = [heap EXCEPT ![f.opts] = r.ns]
        /\ CASE r.status = "ok" ->
                  /\ stack' = [stack EXCEPT ![cur].options = f.opts,
                                            ![cur].parsed = r.ns,
                                            ![cur].pc = AfterParse(f.cls)]
                  /\ UNCHANGED outcome
             [] r.status = "help" ->
                  /\ Raise("SystemExit", 0, "parse_help")
                  /\ UNCHANGED stack
             [] r.status = "error" ->
                  /\ Raise("SystemExit", 2, "parse_error")
                  /\ UNCHANGED stack

(* a validation that checks the real path and leaves the value as given *)
CanonicalDeviceKept(ns) == ns

(* line 98: self.options.device = os.path.realpath(self.options.device) *)
CanonicalDevice(ns) == SetAttr(ns, "device", Str(RealPath(ns["device"].s)))

(* lines 98-104, a class with device_option: canonicalise the device,   *)
(* check that it exists                                                 *)
ValidateDevice ==
  /\ outcome = Running
  /\ stack[cur].pc = "validate"
  /\ Step("validate")
  /\ UNCHANGED <<cur, devices, doing, table, helptext, storeHasDevice>>
  /\ LET f == stack[cur]
         real == RealPath(heap[f.options]["device"].s)
     IN /\ heap' = [heap EXCEPT ![f.options] = CanonicalDevice(@)]
        /\ IF PathExists(real)
           THEN /\ stack' = [stack EXCEPT ![cur].pc = "hook"]
                /\ UNCHANGED outcome
           ELSE /\ Raise("IOError", NoCode, "device_not_found")
                /\ UNCHANGED stack

(* line 106: self.handle_arguments() *)
HandleArguments ==
  /\ outcome = Running
  /\ stack[cur].pc = "hook"
  /\ Step("hook")
  /\ UNCHANGED <<heap, cur, devices, doing, table, helptext, storeHasDevice>>
  /\ \E ok \in (IF HookMayFail(stack[cur].cls) THEN BOOLEAN ELSE {TRUE}) :
       IF ok
       THEN /\ stack' = [stack EXCEPT ![cur].pc = "dispatch"]
            /\ UNCHANGED outcome
       ELSE /\ Raise("Exception", NoCode, "handle_arguments")
            /\ UNCHANGED stack

(* a child handed the whole remainder, its own name included *)
ChildArgvWhole(remainder) == remainder

(* line 117: self.options.remainder[1:] *)
ChildArgv(remainder) == Tail(remainder)

(* a dispatch that constructs the first class of the tree whatever the  *)
(* token is                                                              *)
ChildClassFixed(cls, name) == RootClass

(* line 116: self.subcommands[self.options.remainder[0]] *)
ChildClass(cls, name) == Subcommands(cls)[name]

(* prog_name + " " + self.options.remainder[0] *)
ChildProgName(prog_name, name) == prog_name \o <<" ", name>>

(* the branches of lines 108-116 on the parsed options: a class without *)
(* subcommands falls off the end of __init__; an empty remainder prints  *)
(* the help; a first token that is no key of subcommands is incorrect.   *)
(* a dispatch that takes the missing subcommand for an incorrect one *)
DispatchDecisionNoHelp(cls, options) ==
  IF ~HasSubcommands(cls) THEN "return"
  ELSE IF ~Truthy(options["remainder"]) THEN "incorrect"
  ELSE IF options["remainder"].l[1] \notin DOMAIN Subcommands(cls) THEN "incorrect"
  ELSE "child"

(* a dispatch that answers an incorrect subcommand with the help *)
DispatchDecisionHelpForUnknown(cls, options) ==
  IF ~HasSubcommands(cls) THEN "return"
  ELSE IF ~Truthy(options["remainder"]) THEN "help"
  ELSE IF options["remainder"].l[1] \notin DOMAIN Subcommands(cls) THEN "help"
  ELSE "child"

(* a dispatch that lets a node without a subcommand token return *)
DispatchDecisionReturnOnEmpty(cls, options) ==
  IF ~HasSubcommands(cls) THEN "return"
  ELSE IF ~Truthy(options["remainder"]) THEN "return"
  ELSE IF options["remainder"].l[1] \notin DOMAIN Subcommands(cls) THEN "incorrect"
  ELSE "child"

DispatchDecision(cls, options) ==
  IF ~HasSubcommands(cls) THEN "return"
  ELSE IF ~Truthy(options["remainder"]) THEN "help"
  ELSE IF options["remainder"].l[1] \notin DOMAIN Subcommands(cls) THEN "incorrect"
  ELSE "child"

(* lines 108-120: help, incorrect subcommand, or construct the child *)
Dispatch ==
  /\ outcome = Running
  /\ stack[cur].pc = "dispatch"
  /\ Step("dispatch")
  /\ UNCHANGED <<heap, devices, doing, table, helptext, storeHasDevice>>
  /\ LET f == stack[cur]
         d == DispatchDecision(f.cls, heap[f.options])
     IN CASE d = "return" ->
               /\ stack' = [stack EXCEPT ![cur].pc = "done"]
               /\ cur' = cur - 1
               /\ IF cur = 1 THEN Raise("returned", NoCode, "") ELSE UNCHANGED outcome
          [] d = "help" ->
               /\ Raise("SystemExit", 0, "print_help")
               /\ UNCHANGED <<stack, cur>>
          [] d = "incorrect" ->
               /\ Raise("SystemExit", 1, "incorrect_subcommand")
               /\ UNCHANGED <<stack, cur>>
          [] d = "child" ->
               LET remainder == heap[f.options]["remainder"].l IN
               /\ stack' = Append([stack EXCEPT ![cur].pc = "child"],
                                  Frame(ChildClass(f.cls, remainder[1]),
                                        ChildArgv(remainder),
                                        ChildProgName(f.prog_name, remainder[1]),
                                        f.options,
                                        heap[f.options]))
               /\ cur' = cur + 1
               /\ UNCHANGED outcome

(* line 116: the child's constructor returned, self.cmd = the child *)
AssignCmd ==
  /\ outcome = Running
  /\ cur >= 1
  /\ stack[cur].pc = "child"
  /\ cur < Len(stack)
  /\ stack[cur + 1].pc = "done"
  /\ Step("assign")
  /\ stack' = [stack EXCEPT ![cur].cmd = cur + 1, ![cur].pc = "done"]
  /\ cur' = cur - 1
  /\ IF cur = 1 THEN Raise("returned", NoCode, "") ELSE UNCHANGED outcome
  /\ UNCHANGED <<heap, devices, doing, table, helptext, storeHasDevice>>

(* lines 140-141: do() of a class with subcommands hands on to self.cmd; *)
(* a class without subcommands has its own do().  It runs on the root    *)
(* once the chain is constructed; doing is the node whose do() runs.     *)
Do ==
  /\ outcome.kind = "returned"
  /\ IF doing = 0
     THEN /\ doing' = 1
          /\ UNCHANGED outcome
     ELSE /\ HasSubcommands(stack[doing].cls)
          /\ IF stack[doing].cmd = 0
             THEN /\ outcome' = [kind |-> "AttributeError", code |-> NoCode,
                                 node |-> doing, why |-> "cmd"]
                  /\ UNCHANGED doing
             ELSE /\ doing' = stack[doing].cmd
                  /\ UNCHANGED outcome
  /\ UNCHANGED <<stack, heap, cur, log, devices, table, helptext, storeHasDevice>>

Next ==
  \/ Configure
  \/ AddDeviceOption
  \/ ParseArguments
  \/ ValidateDevice
  \/ HandleArguments
  \/ Dispatch
  \/ AssignCmd
  \/ Do

Spec == Init /\ [][Next]_vars

(* ---------------- a store with device entries ---------------- *)

(* the construction of the root when the configuration file holds an    *)
(* entry named device in the section of every node with device_option   *)
InitStore ==
  /\ \E argv \in Argvs :
       stack = << Frame(RootClass, argv, <<RootName>>, 1, EmptyNamespace) >>
  /\ heap = << EmptyNamespace >>
  /\ cur = 1
  /\ outcome = Running
  /\ log = << >>
  /\ devices = NotEnumerated
  /\ doing = 0
  /\ table = << >>
  /\ helptext = NotComputed
  /\ storeHasDevice = TRUE

SpecStore == InitStore /\ [][Next]_vars

(* ---------------- the epilog on its own ---------------- *)

(* init_parser (line 129) calls self.epilog() on the table of the class; *)
(* here on every table of up to MaxChildren subcommands.                 *)
InitEpilog ==
  /\ table \in Tables
  /\ helptext = NotComputed
  /\ stack = << >>
  /\ heap = << >>
  /\ cur = 0
  /\ outcome = Running
  /\ log = << >>
  /\ devices = NotEnumerated
  /\ doing = 0
  /\ storeHasDevice = FALSE

ComputeEpilog ==
  /\ helptext = NotComputed
  /\ helptext' = Epilog(table)
  /\ UNCHANGED <<stack, heap, cur, outcome, log, devices, doing, table, storeHasDevice>>

NextEpilog == ComputeEpilog

SpecEpilog == InitEpilog /\ [][NextEpilog]_vars

(* ======================= properties ======================= *)

Nodes == 1..Len(stack)

(* the node's parse_args has returned *)
Parsed(k) == stack[k].options # 0

(* the tokens of the node's argv that are its own: those before the     *)
(* catch-all remainder, which belongs to the subcommand                  *)
OwnTokens(k) ==
  IF HasSubcommands(stack[k].cls)
  THEN SubSeq(stack[k].argv, 1, Len(stack[k].argv) - Len(stack[k].parsed["remainder"].l))
  ELSE stack[k].argv

Occurrences(k, opt) == {i \in 1..Len(OwnTokens(k)) : OwnTokens(k)[i] = opt}

Given(k, opt) == Occurrences(k, opt) # {}

LastOccurrence(k, opt) ==
  CHOOSE i \in Occurrences(k, opt) : \A j \in Occurrences(k, opt) : j <= i

(* the value argv gives to a flag of node k *)
ArgvValue(k, a) ==
  CASE a.action = "store" -> Str(OwnTokens(k)[LastOccurrence(k, a.opt) + 1])
    [] a.action = "store_true" -> Bool(TRUE)
    [] a.action = "store_false" -> Bool(FALSE)

(* the flags of node k: the declared ones and -d/--device *)
NodeFlags(k) == OptionActions(stack[k].cls, stack[k].drives) \ {HelpAction}

DeclaredFlags(k) == {Flags(stack[k].cls)[i] : i \in 1..Len(Flags(stack[k].cls))}

(* what the store answers for a declared flag of node k *)
StoreAnswer(k, a) ==
  IF a.action = "store" THEN ConfigGet(stack[k].cfg[a.dest])
  ELSE ConfigGetBoolean(stack[k].cfg[a.dest])

(* C1: for every node whose parse has returned and every flag of the    *)
(* node given among the node's own argv tokens, the namespace holds the *)
(* argv value after the parse, whatever the store holds for the flag.    *)
C1_ArgvOverridesConfig ==
  \A k \in Nodes :
    Parsed(k) =>
      \A a \in NodeFlags(k) :
        Given(k, a.opt) => stack[k].parsed[a.dest] = ArgvValue(k, a)

(* C1 witness: a flag given on argv while the store holds another value *)
C1_Witness ==
  \E k \in Nodes :
    /\ Parsed(k)
    /\ \E a \in DeclaredFlags(k) :
         /\ Given(k, a.opt)
         /\ StoreAnswer(k, a) # None
         /\ StoreAnswer(k, a) # ArgvValue(k, a)
         /\ stack[k].parsed[a.dest] = ArgvValue(k, a)

(* the dot-join of a sequence of names *)
RECURSIVE DotJoin(_)
DotJoin(names) ==
  IF Len(names) = 1 THEN <<names[1]>>
  ELSE DotJoin(SubSeq(names, 1, Len(names) - 1)) \o <<".", names[Len(names)]>>

(* the root name and the tokens dispatched on down to node k *)
RECURSIVE PathNames(_)
PathNames(k) ==
  IF k = 1 THEN <<RootName>>
  ELSE Append(PathNames(k - 1), stack[k - 1].parsed["remainder"].l[1])

(* C2: the section every node looks its defaults up under is the        *)
(* dot-join of the root name and the subcommand tokens dispatched on so  *)
(* far, in order.                                                        *)
C2_SectionIsDottedPath ==
  \A k \in Nodes :
    stack[k].pc # "configure" => stack[k].section = DotJoin(PathNames(k))

(* C2 witness: a node two dispatches below the root has looked up *)
C2_Witness ==
  \E k \in Nodes :
    /\ k = 3
    /\ stack[k].pc # "configure"
    /\ stack[k].section = <<"whipper", ".", "cd", ".", "rip">>

(* C3 as stated: a declared flag that is not on the node's argv resolves *)
(* to the store's value when the store has one and to the built-in       *)
(* default when it has none.                                             *)
C3_AsStated ==
  \A k \in Nodes :
    Parsed(k) =>
      \A a \in DeclaredFlags(k) :
        ~Given(k, a.opt) =>
          stack[k].parsed[a.dest] =
            (IF StoreAnswer(k, a) # None THEN StoreAnswer(k, a) ELSE a.default)

(* C3 amended: the same, for the flags whose name the namespace handed   *)
(* to the node does not hold already.                                    *)
C3_ConfigDefault ==
  \A k \in Nodes :
    Parsed(k) =>
      \A a \in DeclaredFlags(k) :
        (~Given(k, a.opt) /\ ~HasAttr(stack[k].entry, a.dest)) =>
          stack[k].parsed[a.dest] =
            (IF StoreAnswer(k, a) # None THEN StoreAnswer(k, a) ELSE a.default)

(* C3 witness: below the root, a flag absent from argv and from the      *)
(* inherited namespace takes the store's value, which is not its         *)
(* built-in default                                                      *)
C3_Witness ==
  \E k \in Nodes :
    /\ k > 1
    /\ Parsed(k)
    /\ \E a \in DeclaredFlags(k) :
         /\ ~Given(k, a.opt)
         /\ ~HasAttr(stack[k].entry, a.dest)
         /\ StoreAnswer(k, a) # None
         /\ StoreAnswer(k, a) # a.default
         /\ stack[k].parsed[a.dest] = StoreAnswer(k, a)

(* step `step` of node k's __init__ has run *)
Logged(k, step) == \E i \in 1..Len(log) : log[i] = [node |-> k, step |-> step]

Remainder(k) == stack[k].parsed["remainder"].l

(* C4: a node with subcommands whose parse left an empty remainder has  *)
(* no child constructed and is never reported an incorrect subcommand;  *)
(* its dispatch step prints the help and exits with status 0.           *)
C4_HelpOnEmptyRemainder ==
  \A k \in Nodes :
    (HasSubcommands(stack[k].cls) /\ Parsed(k) /\ Remainder(k) = <<>>) =>
      /\ Len(stack) = k
      /\ stack[k].cmd = 0
      /\ outcome.why # "incorrect_subcommand"
      /\ outcome.kind # "returned"
      /\ Logged(k, "dispatch") =>
           outcome = [kind |-> "SystemExit", code |-> 0, node |-> k, why |-> "print_help"]

(* C4 witness: the dispatch of a node below the root found no token *)
C4_Witness ==
  \E k \in Nodes :
    /\ k > 1
    /\ Parsed(k)
    /\ HasSubcommands(stack[k].cls)
    /\ Remainder(k) = <<>>
    /\ Logged(k, "dispatch")
    /\ outcome.why = "print_help"
    /\ outcome.code = 0

(* C5: a node with subcommands whose parse left a remainder that starts *)
(* with a token that is no key of its subcommands has no child, nothing *)
(* runs for a deeper node, the remainder stays as parsed, and its       *)
(* dispatch step exits with status 1.                                    *)
C5_IncorrectSubcommand ==
  \A k \in Nodes :
    (/\ HasSubcommands(stack[k].cls)
     /\ Parsed(k)
     /\ Remainder(k) # <<>>
     /\ Remainder(k)[1] \notin DOMAIN Subcommands(stack[k].cls)) =>
      /\ Len(stack) = k
      /\ stack[k].cmd = 0
      /\ \A i \in 1..Len(log) : log[i].node <= k
      /\ heap[stack[k].options]["remainder"] = List(Remainder(k))
      /\ outcome.why # "print_help"
      /\ outcome.kind # "returned"
      /\ Logged(k, "dispatch") =>
           outcome = [kind |-> "SystemExit", code |-> 1, node |-> k,
                      why |-> "incorrect_subcommand"]

(* C5 witness: an incorrect subcommand with tokens after it *)
C5_Witness ==
  \E k \in Nodes :
    /\ Parsed(k)
    /\ HasSubcommands(stack[k].cls)
    /\ Len(Remainder(k)) >= 2
    /\ Remainder(k)[1] \notin DOMAIN Subcommands(stack[k].cls)
    /\ Logged(k, "dispatch")
    /\ outcome.code = 1

(* C6: when the enumeration of a node with device_option returns no     *)
(* drive, the construction fails there: the node never parses, never    *)
(* validates a device, never runs its hook, never dispatches, and the   *)
(* namespace is as the node received it.                                 *)
C6_NoDrivesFailsFast ==
  \A k \in Nodes :
    (DeviceOption(stack[k].cls) /\ Logged(k, "device") /\ devices = <<>>) =>
      /\ outcome = [kind |-> "IOError", code |-> NoCode, node |-> k, why |-> "no_drives"]
      /\ \A step \in {"parse", "validate", "hook", "dispatch", "assign"} : ~Logged(k, step)
      /\ ~Parsed(k)
      /\ Len(stack) = k
      /\ heap[stack[k].opts] = stack[k].entry

(* C6 witness: a node with device_option found no drive, its argv and   *)
(* the namespace it received not empty                                   *)
C6_Witness ==
  \E k \in Nodes :
    /\ DeviceOption(stack[k].cls)
    /\ Logged(k, "device")
    /\ devices = <<>>
    /\ stack[k].argv # <<>>
    /\ stack[k].entry # EmptyNamespace
    /\ outcome.kind = "IOError"

(* C7 as stated: without -d on the node's argv the device the parse     *)
(* leaves in the namespace is the first enumerated drive.               *)
C7_AsStated ==
  \A k \in Nodes :
    (DeviceOption(stack[k].cls) /\ Parsed(k) /\ ~Given(k, "-d")) =>
      stack[k].parsed["device"] = Str(stack[k].drives[1])

(* C7 amended: the same, when the namespace handed to the node holds no *)
(* device yet.                                                           *)
C7_FirstDriveIsDefault ==
  \A k \in Nodes :
    (/\ DeviceOption(stack[k].cls)
     /\ Parsed(k)
     /\ ~Given(k, "-d")
     /\ ~HasAttr(stack[k].entry, "device")) =>
      stack[k].parsed["device"] = Str(stack[k].drives[1])

(* C7 witness: two drives, the first is taken, and it is the path as    *)
(* enumerated, a symlink that validation then canonicalises              *)
C7_Witness ==
  \E k \in Nodes :
    /\ DeviceOption(stack[k].cls)
    /\ Parsed(k)
    /\ ~Given(k, "-d")
    /\ ~HasAttr(stack[k].entry, "device")
    /\ stack[k].drives # <<>>
    /\ stack[k].parsed["device"] = Str(stack[k].drives[1])
    /\ RealPath(stack[k].drives[1]) # stack[k].drives[1]
    /\ Logged(k, "validate")
    /\ heap[stack[k].options]["device"] = Str(RealPath(stack[k].drives[1]))

(* the names the nodes from k down declare *)
DeclaredFrom(k) == UNION {DefaultDests(stack[j].cls) : j \in k..Len(stack)}

(* C8: what the namespace held when a child was constructed it holds,   *)
(* with the same value, during and after the child's construction, for  *)
(* every name that neither the child nor its descendants declare; all   *)
(* nodes hold the one namespace object the root was given.               *)
C8_ParentFlagsPersist ==
  /\ \A k \in Nodes :
       k > 1 =>
         \A n \in DOMAIN stack[k].entry :
           n \notin DeclaredFrom(k) =>
             /\ HasAttr(heap[stack[1].opts], n)
             /\ heap[stack[1].opts][n] = stack[k].entry[n]
  /\ \A k \in Nodes :
       /\ stack[k].opts = stack[1].opts
       /\ Parsed(k) => stack[k].options = stack[1].opts

(* C8 witness: -R given to the root is there when the chain is built *)
C8_Witness ==
  /\ outcome.kind = "returned"
  /\ Len(stack) = 3
  /\ Given(1, "-R")
  /\ stack[2].entry["record"] = Bool(TRUE)
  /\ heap[stack[3].options]["record"] = Bool(TRUE)

BooleanActions == {"store_true", "store_false"}

(* the texts the boolean lookup reads as false *)
FalseTexts == {"0", "no", "false", "off"}

(* C9: the default the store supplies for a store_true or store_false   *)
(* flag is the boolean the boolean lookup reads, the default for a      *)
(* store flag is the text; a boolean flag that takes its value from a   *)
(* text that reads false is False in the namespace.                      *)
C9_TypedConfigDefaults ==
  /\ \A k \in Nodes :
       stack[k].pc # "configure" =>
         \A a \in DeclaredFlags(k) :
           stack[k].cfg[a.dest] # NoText =>
             /\ HasAttr(stack[k].defaults, a.dest)
             /\ a.action = "store" => stack[k].defaults[a.dest] = Str(stack[k].cfg[a.dest])
             /\ a.action \in BooleanActions =>
                  stack[k].defaults[a.dest] =
                    Bool(stack[k].cfg[a.dest] \notin FalseTexts)
  /\ \A k \in Nodes :
       Parsed(k) =>
         \A a \in DeclaredFlags(k) :
           (/\ a.action \in BooleanActions
            /\ ~Given(k, a.opt)
            /\ ~HasAttr(stack[k].entry, a.dest)
            /\ stack[k].cfg[a.dest] \in FalseTexts) =>
             stack[k].parsed[a.dest] = Bool(FALSE)

(* C9 witness: a flag that is True by default is False by configuration *)
C9_Witness ==
  \E k \in Nodes :
    /\ Parsed(k)
    /\ \E a \in DeclaredFlags(k) :
         /\ a.action \in BooleanActions
         /\ a.default = Bool(TRUE)
         /\ stack[k].cfg[a.dest] \in FalseTexts
         /\ stack[k].parsed[a.dest] = Bool(FALSE)

(* the subcommand name node k was constructed for *)
ChildName(k) == stack[k].prog_name[Len(stack[k].prog_name)]

(* C10: when the root's construction has returned, every node without   *)
(* subcommands is the last of the chain and holds no child, and every   *)
(* node with subcommands holds one constructed child, of the class its  *)
(* subcommands give for the child's name; do() reaches the leaf.         *)
C10_LeafOrOneChild ==
  /\ outcome.kind # "AttributeError"
  /\ outcome.kind = "returned" =>
       \A k \in Nodes :
         IF HasSubcommands(stack[k].cls)
         THEN /\ k < Len(stack)
              /\ stack[k].cmd = k + 1
              /\ stack[k + 1].pc = "done"
              /\ ChildName(k + 1) \in DOMAIN Subcommands(stack[k].cls)
              /\ stack[k + 1].cls = Subcommands(stack[k].cls)[ChildName(k + 1)]
         ELSE /\ k = Len(stack)
              /\ stack[k].cmd = 0

(* C10 witness: a chain of three nodes is constructed and do() has      *)
(* reached its leaf                                                      *)
C10_Witness ==
  /\ outcome.kind = "returned"
  /\ Len(stack) = 3
  /\ doing = 3

(* the name and the summary a line of the epilog shows *)
LineName(line) == line[2]
LineSummary(line) == line[Len(line) - 1]

(* every arrangement of the entries of a table *)
Arrangements(t) ==
  {u \in [1..Len(t) -> {t[i] : i \in 1..Len(t)}] :
     \A i, j \in 1..Len(t) : i # j => u[i] # u[j]}

(* C11: after the header the epilog has one line for every key of the   *)
(* table and no other, the names ascend from line to line, every line   *)
(* shows the summary of its child, and the text is the same for every   *)
(* order the table was filled in.                                        *)
C11_EpilogSortedComplete ==
  helptext # NotComputed =>
    /\ Len(helptext) = Len(table) + 1
    /\ helptext[1] = <<"commands:", "\n">>
    /\ \A i \in 1..Len(table) : \E j \in 2..Len(helptext) : LineName(helptext[j]) = table[i].name
    /\ \A j \in 2..Len(helptext) :
         \E i \in 1..Len(table) :
           /\ LineName(helptext[j]) = table[i].name
           /\ LineSummary(helptext[j]) = table[i].summary
    /\ \A j \in 2..Len(helptext) - 1 : StrLess(LineName(helptext[j]), LineName(helptext[j + 1]))
    /\ \A u \in Arrangements(table) : Epilog(u) = helptext

(* C11 witness: three subcommands inserted in descending order *)
C11_Witness ==
  /\ helptext # NotComputed
  /\ Len(table) = 3
  /\ StrLess(table[3].name, table[2].name)
  /\ StrLess(table[2].name, table[1].name)
  /\ LineName(helptext[2]) = table[3].name
  /\ table[1].summary # table[2].summary

(* how a construction that is no longer running has ended *)
Ended ==
  \/ outcome.kind = "returned"
  \/ outcome.kind = "SystemExit" /\ outcome.code \in {0, 1, 2}
  \/ outcome.kind \in {"IOError", "Exception", "ValueError"}

(* C12: the argv of every child is the tail of its parent's remainder   *)
(* and is shorter than the parent's argv, the chain is never deeper     *)
(* than the number of the root's tokens plus one, and the construction  *)
(* ends: a node takes at most seven steps (configure, device, parse,    *)
(* validate, hook, dispatch, assign), the construction can take a step  *)
(* as long as it runs, and it stops in a returned leaf, a help exit or  *)
(* a fatal error.                                                        *)
C12_DispatchTerminates ==
  /\ \A k \in Nodes \ {1} :
       /\ Remainder(k - 1) # <<>>
       /\ stack[k].argv = Tail(Remainder(k - 1))
       /\ \E i \in 1..Len(stack[k - 1].argv) :
            /\ stack[k - 1].argv[i] = ChildName(k)
            /\ stack[k].argv = SubSeq(stack[k - 1].argv, i + 1, Len(stack[k - 1].argv))
       /\ Len(stack[k].argv) < Len(stack[k - 1].argv)
  /\ Len(stack) <= Len(stack[1].argv) + 1
  /\ Len(log) <= 7 * Len(stack)
  /\ outcome = Running => ENABLED Next
  /\ outcome # Running => Ended

(* C12 witness: a chain as deep as the bound allows, the root's two     *)
(* tokens used up one per level                                          *)
C12_Witness ==
  /\ outcome.kind = "returned"
  /\ Len(stack[1].argv) = 2
  /\ Len(stack) = 3
  /\ stack[2].argv = <<"rip">>
  /\ stack[3].argv = <<>>

(* the construction has failed: a help exit, an incorrect subcommand, a  *)
(* device error, a failed hook or a parse error                          *)
Failed == outcome.kind \in {"SystemExit", "IOError", "Exception", "ValueError"}

(* C13: when the construction has failed, the shared namespace holds    *)
(* what it held before the root was constructed, no value written by a  *)
(* node of the failed chain, and no node holds a reference to a child.  *)
C13_AsStated ==
  Failed =>
    /\ heap[stack[1].opts] = stack[1].entry
    /\ \A k \in Nodes : stack[k].cmd = 0

(* C13 failing state: whipper -R cd, the help exit of cd; the namespace  *)
(* keeps the root's record and remainder and cd's canonical device      *)
C13_Witness ==
  /\ stack[1].argv = <<"-R", "cd">>
  /\ Len(stack) = 2
  /\ outcome = [kind |-> "SystemExit", code |-> 0, node |-> 2, why |-> "print_help"]
  /\ stack[1].entry = EmptyNamespace
  /\ heap[stack[1].opts]["record"] = Bool(TRUE)
  /\ heap[stack[1].opts]["device"] = Str("/dev/sr0")
  /\ \A k \in Nodes : stack[k].cmd = 0

(* the device in the shared namespace, and the one node k's parse left *)
DeviceNow == heap[stack[1].opts]["device"].s
DeviceParsed(k) == stack[k].parsed["device"].s

(* C14: a node with the device option that has validated and not yet    *)
(* handed on to a child finds in the namespace the real path of the     *)
(* device its parse left; where that path does not exist the node has   *)
(* failed with the device error, its hook and its dispatch have not run *)
(* and it has no child; a node with the device option whose             *)
(* construction has returned finds a canonical path that exists.        *)
C14_DeviceCanonicalAndExists ==
  \A k \in Nodes :
    DeviceOption(stack[k].cls) =>
      /\ Logged(k, "validate") /\ stack[k].pc \in {"validate", "hook", "dispatch"} =>
           DeviceNow = RealPath(DeviceParsed(k))
      /\ Logged(k, "validate") /\ ~PathExists(RealPath(DeviceParsed(k))) =>
           /\ outcome = [kind |-> "IOError", code |-> NoCode, node |-> k,
                         why |-> "device_not_found"]
           /\ ~Logged(k, "hook")
           /\ ~Logged(k, "dispatch")
           /\ Len(stack) = k
           /\ stack[k].cmd = 0
      /\ Logged(k, "hook") \/ Logged(k, "dispatch") =>
           PathExists(RealPath(DeviceParsed(k)))
      /\ stack[k].pc = "done" =>
           /\ PathExists(DeviceNow)
           /\ RealPath(DeviceNow) = DeviceNow

(* C14 witness: whipper cd rip has returned; the parse of cd left the   *)
(* link /dev/cdrom, the namespace holds its target                      *)
C14_Witness ==
  /\ Len(stack) = 3
  /\ stack[2].pc = "done"
  /\ stack[3].pc = "done"
  /\ DeviceParsed(2) = "/dev/cdrom"
  /\ DeviceNow = "/dev/sr0"

(* a device given on the argv that does not exist ends the construction *)
C14_NotFoundWitness ==
  /\ outcome.why = "device_not_found"
  /\ Logged(2, "validate")
  /\ DeviceParsed(2) = "cd"

(* the places of the log where node k took the step *)
StepsAt(k, step) == {i \in 1..Len(log) : log[i] = [node |-> k, step |-> step]}

(* C15: no node runs its hook twice, and a node that has come to its    *)
(* dispatch has run it once; the hook comes after the node's parse and, *)
(* with the device option, after its validation, and before its         *)
(* dispatch; a node whose hook failed has no dispatch step, no exit of  *)
(* the dispatch and no child; the hook of a child comes after the hook  *)
(* of its parent, which did not fail.                                   *)
C15_HookOnceInOrder ==
  \A k \in Nodes :
    /\ Cardinality(StepsAt(k, "hook")) <= 1
    /\ stack[k].pc \in {"dispatch", "child", "done"} \/ Logged(k, "dispatch") =>
         Cardinality(StepsAt(k, "hook")) = 1
    /\ \A h \in StepsAt(k, "hook") :
         /\ \E p \in StepsAt(k, "parse") : p < h
         /\ DeviceOption(stack[k].cls) =>
              \E v \in StepsAt(k, "validate") :
                /\ v < h
                /\ \E p \in StepsAt(k, "parse") : p < v
         /\ \A d \in StepsAt(k, "dispatch") : h < d
         /\ k > 1 => \E g \in StepsAt(k - 1, "hook") : g < h
    /\ outcome.why = "handle_arguments" /\ outcome.node = k =>
         /\ outcome.kind = "Exception"
         /\ StepsAt(k, "dispatch") = {}
         /\ Len(stack) = k
         /\ stack[k].cmd = 0
    /\ k > 1 /\ Logged(k, "hook") =>
         ~(outcome.why = "handle_arguments" /\ outcome.node = k - 1)

(* C15 witness: the hook of cd fails, after the hook of the root and    *)
(* after cd's parse and validation                                      *)
C15_Witness ==
  /\ outcome.why = "handle_arguments"
  /\ outcome.node = 2
  /\ Logged(1, "hook")
  /\ Logged(2, "validate")
  /\ Logged(2, "hook")

(* the names the nodes below k declare *)
DeclaredBelow(k) == UNION {DefaultDests(stack[m].cls) : m \in (k + 1)..Len(stack)}

(* C16: a flag a node declares under a name an ancestor declares too,   *)
(* given among the node's own argv tokens, has the node's argv value in *)
(* the namespace after the node's parse; the ancestor's options is the  *)
(* same object, and reads that value as long as no node further down    *)
(* declares the name.                                                    *)
C16_DescendantOverrides ==
  \A k \in Nodes \ {1} :
    Parsed(k) =>
      \A a \in DeclaredFlags(k) :
        \A j \in 1..(k - 1) :
          a.dest \in FlagDests(stack[j].cls) /\ Given(k, a.opt) =>
            /\ stack[k].parsed[a.dest] = ArgvValue(k, a)
            /\ stack[j].options = stack[k].options
            /\ a.dest \notin DeclaredBelow(k) =>
                 heap[stack[j].options][a.dest] = ArgvValue(k, a)

(* C16 witness: the root took output from the store, cd is given -o,   *)
(* and the root reads cd's value                                        *)
C16_Witness ==
  /\ Len(stack) >= 2
  /\ Parsed(2)
  /\ Given(2, "-o")
  /\ stack[2].entry["output"] = Str("yes")
  /\ stack[2].parsed["output"] = Str("rip")
  /\ heap[stack[1].options]["output"] = Str("rip")

(* C17: a flag of a node, declared or -d/--device, whose name the       *)
(* namespace handed to the node already holds and which is not among    *)
(* the node's own argv tokens keeps the inherited value through the     *)
(* node's parse, whatever the store answers for it and whatever its     *)
(* built-in default is.                                                  *)
C17_InheritedValueKept ==
  \A k \in Nodes :
    Parsed(k) =>
      \A a \in NodeFlags(k) :
        HasAttr(stack[k].entry, a.dest) /\ ~Given(k, a.opt) =>
          stack[k].parsed[a.dest] = stack[k].entry[a.dest]

(* C17 witness: cd inherits the output given to the root, the store     *)
(* holds another value for cd and the built-in default is None          *)
C17_Witness ==
  /\ Len(stack) >= 2
  /\ Parsed(2)
  /\ ~Given(2, "-o")
  /\ stack[2].entry["output"] = Str("cd")
  /\ stack[2].cfg["output"] = "yes"
  /\ FlagOf(stack[2].cls, "output").default = None
  /\ stack[2].parsed["output"] = Str("cd")

(* -d/--device is among the own tokens of a node from the root to k *)
DeviceGivenDownTo(k) == \E j \in 1..k : Parsed(j) /\ Given(j, "-d")

(* C18: no node has a default for device from the store; the device a   *)
(* node's parse leaves is the argv value, else the inherited value,     *)
(* else the first enumerated drive, whatever the store holds under      *)
(* device; and when no -d/--device is given the device a node has       *)
(* validated is the real path of the first enumerated drive.            *)
C18_DeviceNotFromStore ==
  \A k \in Nodes :
    /\ "device" \notin DOMAIN stack[k].defaults
    /\ DeviceOption(stack[k].cls) /\ Parsed(k) =>
         /\ stack[k].parsed["device"] =
              IF Given(k, "-d") THEN ArgvValue(k, DeviceAction(stack[k].drives))
              ELSE IF HasAttr(stack[k].entry, "device") THEN stack[k].entry["device"]
              ELSE Str(stack[k].drives[1])
         /\ Logged(k, "validate") /\ ~DeviceGivenDownTo(k) /\ k = Len(stack) =>
              DeviceNow = RealPath(devices[1])

(* C18 witness: the store holds device = /dev/sr1 under [whipper.cd],   *)
(* the only drive is /dev/cdrom, and cd resolves /dev/cdrom              *)
C18_Witness ==
  /\ Len(stack) >= 2
  /\ Parsed(2)
  /\ stack[2].cfg["device"] = "/dev/sr1"
  /\ ~Given(2, "-d")
  /\ devices = <<"/dev/cdrom">>
  /\ stack[2].parsed["device"] = Str("/dev/cdrom")
  /\ Logged(2, "validate")
  /\ stack[2].pc = "dispatch"
  /\ DeviceNow = "/dev/sr0"

(* C19: a node that holds a child holds the next node of the chain, and *)
(* every node below it is constructed, holds its own child where it has *)
(* subcommands, and nothing has failed; the nodes under construction    *)
(* are the first cur nodes of the chain, each but the last waiting for  *)
(* its child; the steps pass from a node to its child only at the       *)
(* node's dispatch and the child's first step, and back only when the   *)
(* child is done, for the node to take the child; every node but the    *)
(* root was constructed after the dispatch                               *)
(* of its parent, for the first token of the parent's remainder, which  *)
(* is a key of the parent's subcommands, and is of the class given      *)
(* there.                                                                *)
C19_ChildAssignedLast ==
  /\ \A k \in Nodes :
       stack[k].cmd # 0 =>
         /\ stack[k].cmd = k + 1
         /\ k < Len(stack)
         /\ stack[k].pc = "done"
         /\ outcome.kind \in {"running", "returned"}
         /\ \A m \in (k + 1)..Len(stack) :
              /\ stack[m].pc = "done"
              /\ Logged(m, "dispatch")
              /\ HasSubcommands(stack[m].cls) => stack[m].cmd = m + 1
  /\ outcome.kind # "returned" =>
       /\ cur \in Nodes
       /\ \A k \in Nodes :
            /\ k < cur => stack[k].pc = "child" /\ stack[k].cmd = 0
            /\ k > cur => stack[k].pc = "done"
            /\ k = cur => stack[k].pc # "done" /\ stack[k].cmd = 0
       /\ Len(stack) <= cur + 1 \/ stack[cur + 1].cmd # 0
  /\ \A i \in 1..(Len(log) - 1) :
       \/ log[i + 1].node = log[i].node
       \/ /\ log[i + 1].node = log[i].node + 1
          /\ log[i].step = "dispatch"
          /\ log[i + 1].step = "configure"
       \/ /\ log[i + 1].node = log[i].node - 1
          /\ log[i].step \in {"dispatch", "assign"}
          /\ log[i + 1].step = "assign"
  /\ \A k \in Nodes \ {1} :
       /\ \E d \in StepsAt(k - 1, "dispatch") :
            \A i \in 1..Len(log) : log[i].node = k => d < i
       /\ ChildName(k) = Remainder(k - 1)[1]
       /\ ChildName(k) \in DOMAIN Subcommands(stack[k - 1].cls)
       /\ stack[k].cls = Subcommands(stack[k - 1].cls)[ChildName(k)]

(* C19 witness: the leaf and cd are constructed and cd holds the leaf,  *)
(* while the root is still waiting to be given cd                        *)
C19_Witness ==
  /\ outcome = Running
  /\ Len(stack) = 3
  /\ cur = 1
  /\ stack[1].pc = "child"
  /\ stack[1].cmd = 0
  /\ stack[2].cmd = 3
  /\ stack[3].pc = "done"

====
